---- MODULE Spec2Model ----
(***************************************************************************)
(* Rizzume: resume-against-job-description scoring service.                *)
(*                                                                         *)
(* The module holds several specifications over one set of variables:      *)
(*   SpecChunk    the chunker loop (app/service/chunking.py)               *)
(*   SpecRetrieve top-k retrieval (app/service/resume_rag_scorer.py)       *)
(*   SpecScoreOne the per-question reply sanitisation                      *)
(*   Spec         one /score request, from the dependencies to the reply   *)
(*   SpecGate     the dependencies of the protected endpoints over a       *)
(*                sequence of requests while time passes                   *)
(*   SpecStartup  the process from its start, for every environment        *)
(*   SpecChunkFair   SpecChunk with the loop running on                    *)
(*   SpecParse       the two parsers of a reply's content                  *)
(*   SpecThreads     rate_limiter run by several worker threads at once    *)
(*   SpecEventLoop   several /score requests on the event loop and the     *)
(*                   thread pool                                           *)
(* A specification leaves the variables of the others unchanged.           *)
(***************************************************************************)
EXTENDS Integers, Sequences, FiniteSets, TLC

VARIABLES
    \* ---- chunk_text (chunking.py) ----
    arg_text,       \* the text argument as the caller passed it
    max_chars,      \* argument max_chars
    overlap,        \* argument overlap
    text,           \* the local `text` after text.strip()
    start,          \* loop variable start
    chunk_id,       \* loop variable chunk_id
    chunks,         \* the list being built / returned
    ck_pc,          \* "call" | "loop" | "return"
    \* ---- _retrieve_chunks_for_question (resume_rag_scorer.py) ----
    sims,           \* similarity of the question to chunk 0..n-1 (row 0 of the matrix)
    top_k,          \* argument top_k
    retrieved,      \* the returned list of RetrievedChunk
    rt_pc,          \* "call" | "return"
    \* ---- _score_single_question_with_rag (resume_rag_scorer.py) ----
    q_category,     \* argument category
    q_reply,        \* what the LLM backend does for this call
    q_result,       \* the ScoredQuestion returned, or the exception raised
    q_pc,           \* "call" | "return"
    \* ---- one POST /score request (routes/scoring_route.py and what it calls) ----
    request,        \* the form fields and headers of the request
    request_history,\* security._request_history: client key -> deque of timestamps
    now,            \* time.time()
    max_questions_per_category, \* settings.max_questions_per_category
    max_requests_per_minute,    \* settings.max_requests_per_minute
    payload,        \* the NormalizedScoreInput, once normalize_score_input returned
    jd_questions,   \* the JDQuestions, once generate_jd_questions returned
    all_scored,     \* score_resume_with_rag: the list all_scored
    llm_calls,      \* every call of call_ollama_chat, in order
    embed_calls,    \* every call of the embedding model, in order
    rag_result,     \* the ResumeRagResult returned (a list of zero or one)
    response,       \* the HTTP response
    raised,         \* the exception that ended the request ("": none)
    http_posts,     \* the number of requests.post calls made by call_ollama_chat
    pc,             \* where the request is
    \* ---- the process (app/main.py, app/config.py) ----
    environ,        \* os.environ: EMBED_MODEL_NAME and APP_API_KEY ("": not set)
    proc,           \* "starting" | "serving" | "failed"
    log,            \* the requests answered so far, in order
    \* ---- _parse_json_from_content and _parse_scoring_json ----
    content,        \* the argument content, a string
    json_text,      \* the text that was wrapped to make content
    parsed,         \* what each of the two parsers returned or raised
    ps_pc,          \* "call" | "return"
    \* ---- rate_limiter on worker threads (security.py) ----
    thread_pc,      \* thread -> where it is in rate_limiter
    \* ---- score_resume on the event loop (routes/scoring_route.py) ----
    handler_pc,     \* request -> the stage it is at
    handler_thread  \* request -> the thread it occupies: "none" | "loop" | "worker"

chunkVars == <<arg_text, max_chars, overlap, text, start, chunk_id, chunks, ck_pc>>
retrVars == <<sims, top_k, retrieved, rt_pc>>
oneVars == <<q_category, q_reply, q_result, q_pc>>
settingsVars == <<max_questions_per_category, max_requests_per_minute>>
procVars == <<environ, proc, log>>
pipeVars == <<request, request_history, now, settingsVars, payload, jd_questions,
              all_scored, llm_calls, embed_calls, rag_result, response, raised,
              http_posts, pc, procVars>>

parseVars == <<content, json_text, parsed, ps_pc>>
sideVars == <<parseVars, thread_pc, handler_pc, handler_thread>>

vars == <<chunkVars, retrVars, oneVars, pipeVars, sideVars>>

(***************************************************************************)
(* Bounds of the model.                                                    *)
(***************************************************************************)
MaxLen == 4
MaxChars == 3
MaxOverlap == 3
MaxChunks == 7
MaxIndex == 3
MaxTopK == 4
MaxSim == 2
MaxRaw == 15
MaxPerCategory == 2
MaxListed == 2
MaxTotal == 4
MaxRate == 2
MaxRequests == 3
MaxTicks == 3
MaxBackticks == 4
MaxThreads == 3
MaxHandlers == 3
PoolSize == 2

Min(a, b) == IF a < b THEN a ELSE b
Max(a, b) == IF a > b THEN a ELSE b

(***************************************************************************)
(* Texts are sequences of characters; " " stands for whitespace.           *)
(***************************************************************************)
Chars == {" ", "a", "b"}
Whitespace == {" "}

Texts == UNION {[1..k -> Chars] : k \in 0..MaxLen}

\* Python s[i:j] for a sequence s, with negative indices counted from the end
\* and both indices clipped to 0..len(s).
PyIndex(i, len) == IF i < 0 THEN Max(i + len, 0) ELSE Min(i, len)

Slice(s, i, j) ==
    LET lo == PyIndex(i, Len(s))
        hi == PyIndex(j, Len(s))
    IN  IF lo >= hi THEN <<>> ELSE [k \in 1..(hi - lo) |-> s[lo + k]]

\* str.strip(): drop leading and trailing whitespace.
RECURSIVE LStrip(_)
LStrip(s) == IF s # <<>> /\ Head(s) \in Whitespace THEN LStrip(Tail(s)) ELSE s

RECURSIVE RStrip(_)
RStrip(s) ==
    IF s # <<>> /\ s[Len(s)] \in Whitespace
    THEN RStrip(SubSeq(s, 1, Len(s) - 1))
    ELSE s

Strip(s) == RStrip(LStrip(s))

IdleChunk ==
    /\ arg_text = <<>>
    /\ max_chars = 1
    /\ overlap = 0
    /\ text = <<>>
    /\ start = 0
    /\ chunk_id = 0
    /\ chunks = <<>>
    /\ ck_pc = "idle"

IdleRetrieve ==
    /\ sims = <<>>
    /\ top_k = 0
    /\ retrieved = <<>>
    /\ rt_pc = "idle"

IdleOne ==
    /\ q_category = "education"
    /\ q_reply = [kind |-> "transport_error", score |-> [t |-> "absent", v |-> 0]]
    /\ q_result = [exc |-> "none", scored |-> <<>>]
    /\ q_pc = "idle"

\* a form field *_text: not sent, or a string of `raw` characters of which
\* `chars` remain after strip()
NoText == [given |-> FALSE, raw |-> 0, chars |-> 0]
TextArg(raw, chars) == [given |-> TRUE, raw |-> raw, chars |-> chars]

\* a form field *_file: not sent, or an upload of `bytes` bytes, readable or not
\* (a broken PDF), whose extracted and stripped text has `chars` characters
NoFile == [given |-> FALSE, bytes |-> 0, readable |-> TRUE, chars |-> 0]
FileArg(bytes, readable, chars) ==
    [given |-> TRUE, bytes |-> bytes, readable |-> readable, chars |-> chars]

NoRequest ==
    [x_api_key |-> "", host |-> "", jd_text |-> NoText, jd_file |-> NoFile,
     resume_text |-> NoText, resume_file |-> NoFile]

NoPayload == [set |-> FALSE, jd |-> 0, resume |-> 0]

NoQuestions == [set |-> FALSE, lists |-> <<>>]

NoResponse == [status |-> 0, code |-> "", message |-> "", body |-> "none"]

\* os.environ with neither variable set
NoEnviron == [EMBED_MODEL_NAME |-> "", APP_API_KEY |-> ""]

IdlePipe ==
    /\ request = NoRequest
    /\ request_history = <<>>
    /\ now = 0
    /\ max_questions_per_category = 1
    /\ max_requests_per_minute = 1
    /\ payload = NoPayload
    /\ jd_questions = NoQuestions
    /\ all_scored = <<>>
    /\ llm_calls = <<>>
    /\ embed_calls = <<>>
    /\ rag_result = <<>>
    /\ response = NoResponse
    /\ raised = ""
    /\ http_posts = 0
    /\ pc = "idle"
    /\ environ = NoEnviron
    /\ proc = "idle"
    /\ log = <<>>

NotParsed == [generator |-> [exc |-> "none", value |-> <<>>],
              scorer |-> [exc |-> "none", value |-> <<>>]]

IdleParse ==
    /\ content = <<>>
    /\ json_text = <<>>
    /\ parsed = NotParsed
    /\ ps_pc = "idle"

\* no parser called, no thread in rate_limiter, no request in a handler
IdleSide == IdleParse /\ thread_pc = <<>> /\ handler_pc = <<>> /\ handler_thread = <<>>

(***************************************************************************)
(* chunk_text                                                              *)
(***************************************************************************)
TextChunk(id, st, en, tx) == [id |-> id, start |-> st, end |-> en, text |-> tx]

ChunkEndOffByOne(st, mc, n) == Min(st + mc + 1, n)

\* end = min(start + max_chars, n)
ChunkEnd(st, mc, n) == Min(st + mc, n)

NextStartSkip(en, ov) == en - ov + 1

NextStartNoOverlap(en, ov) == en

\* start = end - overlap
NextStart(en, ov) == en - ov

InitChunk ==
    /\ arg_text \in Texts
    /\ max_chars \in 1..MaxChars
    /\ overlap \in 0..MaxOverlap
    /\ text = <<>>
    /\ start = 0
    /\ chunk_id = 0
    /\ chunks = <<>>
    /\ ck_pc = "call"
    /\ IdleRetrieve
    /\ IdleOne
    /\ IdlePipe
    /\ IdleSide

\* lines 24-31: strip, the empty-text return, the loop initialisation
ChunkEnter ==
    /\ ck_pc = "call"
    /\ text' = Strip(arg_text)
    /\ chunks' = <<>>
    /\ chunk_id' = 0
    /\ start' = 0
    /\ ck_pc' = IF Len(Strip(arg_text)) = 0 THEN "return" ELSE "loop"
    /\ UNCHANGED <<arg_text, max_chars, overlap>>

\* lines 33-50: one pass of the while loop (the model stops a run that has
\* built MaxChunks chunks)
ChunkIter ==
    /\ ck_pc = "loop"
    /\ Len(chunks) < MaxChunks
    /\ LET n == Len(text)
           end == ChunkEnd(start, max_chars, n)
       IN  IF start < n
           THEN /\ chunks' = Append(chunks,
                                    TextChunk(chunk_id, start, end, Slice(text, start, end)))
                /\ chunk_id' = chunk_id + 1
                /\ IF end = n
                   THEN /\ ck_pc' = "return"
                        /\ start' = start
                   ELSE /\ ck_pc' = "loop"
                        /\ start' = NextStart(end, overlap)
           ELSE /\ ck_pc' = "return"
                /\ UNCHANGED <<chunks, chunk_id, start>>
    /\ UNCHANGED <<arg_text, max_chars, overlap, text>>

NextChunk ==
    \/ ChunkEnter /\ UNCHANGED <<retrVars, oneVars, pipeVars, sideVars>>
    \/ ChunkIter /\ UNCHANGED <<retrVars, oneVars, pipeVars, sideVars>>

SpecChunk == InitChunk /\ [][NextChunk]_vars

\* chunk_text keeps running once called: nothing else can delay its loop
SpecChunkFair == InitChunk /\ [][NextChunk]_vars /\ WF_vars(NextChunk)

Precondition == max_chars > overlap /\ overlap >= 0

\* The half-open ranges of the chunks cover [0, n).
Covers(cs, n) ==
    \A p \in 0..(n - 1) : \E i \in 1..Len(cs) : cs[i].start <= p /\ p < cs[i].end

IdsInOrder(cs) == \A i \in 1..Len(cs) : cs[i].id = i - 1

\* C1 (as amended): under max_chars > overlap >= 0 the returned chunks have
\* ids 0..n-1 in order; when the trimmed text is non-empty their ranges cover
\* [0, len(trimmed text)) and the last chunk ends at len(trimmed text); a
\* text that trims to nothing gives no chunk.
C1_CoverageOfTrimmedText ==
    (ck_pc = "return" /\ Precondition) =>
        /\ IdsInOrder(chunks)
        /\ (Strip(arg_text) = <<>>) => chunks = <<>>
        /\ (Strip(arg_text) # <<>>) =>
              /\ chunks # <<>>
              /\ Covers(chunks, Len(Strip(arg_text)))
              /\ chunks[Len(chunks)].end = Len(Strip(arg_text))

\* a text with surrounding whitespace has been chunked into several chunks
C1_Witness ==
    /\ ck_pc = "return"
    /\ Precondition
    /\ Len(chunks) >= 2
    /\ Len(Strip(arg_text)) < Len(arg_text)

\* C1 as stated: coverage and the last end measured on the caller's text
C1_CoverageOfCallerText ==
    (ck_pc = "return" /\ Precondition /\ arg_text # <<>>) =>
        /\ IdsInOrder(chunks)
        /\ chunks # <<>>
        /\ Covers(chunks, Len(arg_text))
        /\ chunks[Len(chunks)].end = Len(arg_text)

\* C22: under max_chars > overlap >= 0 every chunk built has
\* 0 <= start < end, end - start <= max_chars and the text
\* trimmed[start:end]; starts and ends do not decrease along the list; every
\* chunk but the last is max_chars long.
C22_ChunkInvariants ==
    Precondition =>
        /\ \A i \in 1..Len(chunks) :
               /\ 0 <= chunks[i].start
               /\ chunks[i].start < chunks[i].end
               /\ chunks[i].end <= Len(Strip(arg_text))
               /\ chunks[i].end - chunks[i].start <= max_chars
               /\ chunks[i].text =
                      SubSeq(Strip(arg_text), chunks[i].start + 1, chunks[i].end)
        /\ \A i \in 1..(Len(chunks) - 1) :
               /\ chunks[i].start <= chunks[i + 1].start
               /\ chunks[i].end <= chunks[i + 1].end
               /\ chunks[i].end - chunks[i].start = max_chars

\* a list whose last chunk is shorter than max_chars
C22_Witness ==
    /\ ck_pc = "return"
    /\ Precondition
    /\ Len(chunks) >= 2
    /\ chunks[Len(chunks)].end - chunks[Len(chunks)].start < max_chars

\* C23: under max_chars > overlap >= 0 chunk_text returns on every text;
\* each chunk starts overlap characters before the end of the previous one
\* and strictly after its start; only the last chunk ends at the end of the
\* text, and the last one does.
C23_OverlapAndTermination ==
    /\ [](Precondition =>
            /\ \A i \in 1..(Len(chunks) - 1) :
                   /\ chunks[i + 1].start = chunks[i].end - overlap
                   /\ chunks[i + 1].start > chunks[i].start
                   /\ chunks[i].end < Len(text)
            /\ (ck_pc = "return" /\ chunks # <<>>) =>
                   chunks[Len(chunks)].end = Len(text)
            /\ (ck_pc = "loop") => Len(chunks) < MaxChunks)
    /\ [](Precondition => <>(ck_pc = "return"))

\* three chunks that overlap have been returned
C23_Witness ==
    /\ ck_pc = "return"
    /\ Precondition
    /\ overlap > 0
    /\ Len(chunks) >= 3

\* C26: for every max_chars >= 1 and overlap >= 0, overlap >= max_chars
\* included, start is never negative, no chunk is empty and every pass of
\* the loop moves start forward.
C26_ProgressClamp ==
    /\ start >= 0
    /\ \A i \in 1..Len(chunks) : chunks[i].start >= 0 /\ chunks[i].text # <<>>
    /\ \A i \in 1..(Len(chunks) - 1) : chunks[i + 1].start > chunks[i].start

(***************************************************************************)
(* _retrieve_chunks_for_question                                           *)
(*                                                                         *)
(* The embedding model is outside the program: the similarities of the     *)
(* question to the indexed chunks are the input.  Chunk i of the index has *)
(* id i (chunk_text numbers them 0..n-1); sims[i + 1] is its similarity.   *)
(***************************************************************************)
SimValues == 0..MaxSim

SimRows == UNION {[1..k -> SimValues] : k \in 0..MaxIndex}

\* the sequences that list every element of 0..n-1 once
IndexOrders(n) ==
    {p \in [1..n -> 0..(n - 1)] : \A i, j \in 1..n : i # j => p[i] # p[j]}

\* np.argsort(keys): the index orders that sort keys ascending; numpy's default
\* sort is not stable, so any order of equal keys is a possible result
Argsort(keys) ==
    {p \in IndexOrders(Len(keys)) :
        \A i \in 1..(Len(keys) - 1) : keys[p[i] + 1] <= keys[p[i + 1] + 1]}

SortKeysNotNegated(s) == s

\* -sims
SortKeys(s) == [i \in 1..Len(s) |-> 0 - s[i]]

RetrievedChunk(idx, s) == [chunk_id |-> idx, similarity |-> s[idx + 1]]

\* lines 44-60: the lists the function can return for a row of similarities
RetrieveResults(s, k) ==
    IF Len(s) = 0
    THEN {<<>>}
    ELSE LET kk == Min(k, Len(s))
         IN  {[i \in 1..Len(Slice(p, 0, kk)) |-> RetrievedChunk(Slice(p, 0, kk)[i], s)] :
                 p \in Argsort(SortKeys(s))}

InitRetrieve ==
    /\ sims \in SimRows
    /\ top_k \in (0 - 1)..MaxTopK
    /\ retrieved = <<>>
    /\ rt_pc = "call"
    /\ IdleChunk
    /\ IdleOne
    /\ IdlePipe
    /\ IdleSide

Retrieve ==
    /\ rt_pc = "call"
    /\ retrieved' \in RetrieveResults(sims, top_k)
    /\ rt_pc' = "return"
    /\ UNCHANGED <<sims, top_k>>

NextRetrieve == Retrieve /\ UNCHANGED <<chunkVars, oneVars, pipeVars, sideVars>>

SpecRetrieve == InitRetrieve /\ [][NextRetrieve]_vars

\* C5: for top_k >= 0 the result holds exactly min(top_k, number of chunks)
\* chunks, in non-increasing order of similarity, each one (a chunk of the
\* index, with its own similarity, listed once) at least as similar as every
\* chunk left out; an empty index gives the empty list.
C5_RetrievalRanking ==
    (rt_pc = "return" /\ top_k >= 0) =>
        LET n == Len(sims)
            got == {retrieved[i].chunk_id : i \in 1..Len(retrieved)}
        IN  /\ Len(retrieved) = Min(top_k, n)
            /\ \A i \in 1..Len(retrieved) :
                  /\ retrieved[i].chunk_id \in 0..(n - 1)
                  /\ retrieved[i].similarity = sims[retrieved[i].chunk_id + 1]
            /\ Cardinality(got) = Len(retrieved)
            /\ \A i \in 1..(Len(retrieved) - 1) :
                  retrieved[i].similarity >= retrieved[i + 1].similarity
            /\ \A i \in 1..Len(retrieved) : \A c \in (0..(n - 1)) \ got :
                  retrieved[i].similarity >= sims[c + 1]
            /\ (n = 0) => retrieved = <<>>

\* C24: for the same similarities, index and top_k every run returns the same
\* sequence: what this run returned is the only list the function can return.
C24_DeterministicRetrieval ==
    (rt_pc = "return" /\ top_k >= 0) =>
        \A r \in RetrieveResults(sims, top_k) : r = retrieved

\* a cut through an index with different similarities: some chunk is left out
C5_Witness ==
    /\ rt_pc = "return"
    /\ top_k >= 1
    /\ Len(retrieved) = top_k
    /\ Len(sims) > top_k
    /\ \E i, j \in 1..Len(sims) : sims[i] # sims[j]

(***************************************************************************)
(* The LLM backend and its replies                                         *)
(*                                                                         *)
(* A reply is what one call of call_ollama_chat meets:                     *)
(*   transport_error  requests.post raised ConnectionError                 *)
(*   timeout          requests.post raised Timeout                         *)
(*   http_status      raise_for_status() raised HTTPError                  *)
(*   undecodable_body resp.json() raised requests' JSONDecodeError         *)
(*   not_object       the body is JSON but not an object                   *)
(*   no_message       no "message", or no "content" in it                  *)
(*   content_not_str  "content" is not a string                            *)
(*   not_json         the content is not JSON                              *)
(*   json_not_object  the content is JSON but not an object (a list, ...)  *)
(*   object           the content is a JSON object; `score` is its "score" *)
(* A JSON value v of the "score" key:                                      *)
(*   absent | null | list | dict | text (a string float() rejects) | huge  *)
(*   (an integer beyond the float range) | nan | inf | ninf (the literals  *)
(*   NaN, Infinity, -Infinity, which json.loads accepts) | bool | num |    *)
(*   str (a string holding the number v)                                   *)
(***************************************************************************)
Categories == <<"education", "experience", "technical_skills", "soft_skills">>

JVal(t, v) == [t |-> t, v |-> v]

ScoreValues ==
    {JVal(t, 0) : t \in {"absent", "null", "list", "dict", "text", "huge", "nan", "inf", "ninf"}}
    \cup {JVal("bool", b) : b \in {0, 1}}
    \cup {JVal(t, v) : t \in {"num", "str"}, v \in (0 - MaxRaw)..MaxRaw}

\* the failures that are subclasses of requests.RequestException
TransportKinds == {"transport_error", "timeout", "http_status", "undecodable_body"}

FailureKinds ==
    TransportKinds
    \cup {"not_object", "no_message", "content_not_str", "not_json", "json_not_object"}

Reply(kind, score) == [kind |-> kind, score |-> score]

Replies ==
    {Reply(k, JVal("absent", 0)) : k \in FailureKinds}
    \cup {Reply("object", sc) : sc \in ScoreValues}

\* Python floats: a finite number v, or nan / inf / ninf
Fin(v) == [f |-> "fin", v |-> v]
NaN == [f |-> "nan", v |-> 0]
PosInf == [f |-> "inf", v |-> 0]
NegInf == [f |-> "ninf", v |-> 0]

\* a < b on floats; every comparison with nan is false
FLess(a, b) ==
    CASE a.f = "nan" \/ b.f = "nan" -> FALSE
      [] a.f = "ninf" -> b.f # "ninf"
      [] a.f = "inf" -> FALSE
      [] b.f = "ninf" -> FALSE
      [] b.f = "inf" -> TRUE
      [] OTHER -> a.v < b.v

\* min(a, b) and max(a, b) of the Python builtins: the first argument is kept
\* unless the second is strictly smaller (larger)
PyMin(a, b) == IF FLess(b, a) THEN b ELSE a
PyMax(a, b) == IF FLess(a, b) THEN b ELSE a

\* float(score_raw): the float, or the exception raised
PyFloat(x) ==
    CASE x.t \in {"num", "str", "bool"} -> [exc |-> "none", val |-> Fin(x.v)]
      [] x.t = "nan" -> [exc |-> "none", val |-> NaN]
      [] x.t = "inf" -> [exc |-> "none", val |-> PosInf]
      [] x.t = "ninf" -> [exc |-> "none", val |-> NegInf]
      [] x.t \in {"null", "list", "dict"} -> [exc |-> "TypeError", val |-> Fin(0)]
      [] x.t = "text" -> [exc |-> "ValueError", val |-> Fin(0)]
      [] x.t = "huge" -> [exc |-> "OverflowError", val |-> Fin(0)]

ClampUpperOnly(x) == PyMin(Fin(10), x)

\* line 132: score = max(0.0, min(10.0, score))
Clamp(x) == PyMax(Fin(0), PyMin(Fin(10), x))

HttpAttemptsWithRetry(reply) == IF reply.kind \in TransportKinds THEN 2 ELSE 1

\* call_ollama_chat, line 44: one requests.post, in no loop
HttpAttempts(reply) == 1

\* call_ollama_chat: the exception it raises for a reply ("none": it returns)
CallOllamaChat(reply) ==
    IF reply.kind \in TransportKinds THEN "LLMBackendError" ELSE "none"

\* _extract_content_from_ollama_response
ExtractContent(reply) ==
    CASE reply.kind = "not_object" -> "AttributeError"
      [] reply.kind \in {"no_message", "content_not_str"} -> "ValueError"
      [] OTHER -> "none"

\* _parse_scoring_json / _parse_json_from_content: json.loads of the content
ParseJson(reply) == IF reply.kind = "not_json" THEN "JSONDecodeError" ELSE "none"

Raised(e) == [exc |-> e, scored |-> <<>>]

ScoredQuestion(category, question, score) ==
    [category |-> category, question |-> question, score |-> score]

ScoreSingleQuestionIsolating(category, question, reply) ==
    [exc |-> "none", scored |-> <<ScoredQuestion(category, question, Fin(0))>>]

\* _score_single_question_with_rag, lines 113-142, for one reply of the backend
\* (answer, reasoning and the evidence text are left out of the record)
ScoreSingleQuestion(category, question, reply) ==
    IF CallOllamaChat(reply) # "none" THEN Raised(CallOllamaChat(reply))
    ELSE IF ExtractContent(reply) # "none" THEN Raised(ExtractContent(reply))
    ELSE IF ParseJson(reply) # "none" THEN Raised("ValueError")
    ELSE IF reply.kind = "json_not_object" THEN Raised("AttributeError")
    ELSE LET score_raw == IF reply.score.t = "absent" THEN JVal("num", 0) ELSE reply.score
             conv == PyFloat(score_raw)
         IN  IF conv.exc \in {"TypeError", "ValueError"}
             THEN [exc |-> "none", scored |-> <<ScoredQuestion(category, question, Clamp(Fin(0)))>>]
             ELSE IF conv.exc # "none"
             THEN Raised(conv.exc)
             ELSE [exc |-> "none", scored |-> <<ScoredQuestion(category, question, Clamp(conv.val))>>]

CategorySet == {Categories[i] : i \in 1..Len(Categories)}

InitScoreOne ==
    /\ q_category \in CategorySet
    /\ q_reply \in Replies
    /\ q_result = [exc |-> "none", scored |-> <<>>]
    /\ q_pc = "call"
    /\ IdleChunk
    /\ IdleRetrieve
    /\ IdlePipe
    /\ IdleSide

ScoreOne ==
    /\ q_pc = "call"
    /\ q_result' = ScoreSingleQuestion(q_category, 1, q_reply)
    /\ q_pc' = "return"
    /\ UNCHANGED <<q_category, q_reply>>

NextScoreOne == ScoreOne /\ UNCHANGED <<chunkVars, retrVars, pipeVars, sideVars>>

SpecScoreOne == InitScoreOne /\ [][NextScoreOne]_vars

Built == q_pc = "return" /\ q_result.exc = "none"

InRange(x) == x.f = "fin" /\ 0 <= x.v /\ x.v <= 10

max_jd_chars == 8000
max_resume_chars == 20000
max_upload_bytes == 5242880
window_seconds == 60

\* settings.api_key: "" stands for None
api_key == ""

\* get_settings(): the exception raised ("none": a Settings is returned).  Of
\* the environment it reads EMBED_MODEL_NAME, OLLAMA_BASE_URL and
\* OLLAMA_DEFAULT_MODEL; APP_API_KEY is not read, api_key keeps its default.
GetSettings(env) == IF env.EMBED_MODEL_NAME = "" THEN "RuntimeError" ELSE "none"

(***************************************************************************)
(* app/errors.py                                                           *)
(***************************************************************************)
AppErrors == {"AuthError", "RateLimitError", "ValidationAppError", "LLMBackendError"}

\* the default code of each AppError subclass
ErrorCode(exc) ==
    CASE exc = "AuthError" -> "auth_error"
      [] exc = "RateLimitError" -> "rate_limited"
      [] exc = "ValidationAppError" -> "validation_error"
      [] exc = "LLMBackendError" -> "llm_backend_error"

StatusOf(exc) ==
    CASE exc = "AuthError" -> 401
      [] exc = "RateLimitError" -> 429
      [] exc = "ValidationAppError" -> 400
      [] exc = "LLMBackendError" -> 502

\* app_error_to_http: detail = {"code": ..., "message": ...}
AppErrorToHttp(exc) ==
    [status |-> StatusOf(exc), code |-> ErrorCode(exc), message |-> exc,
     body |-> "code_and_message"]

\* raise HTTPException(status_code=..., detail="<a sentence>")
HttpException(status, detail) ==
    [status |-> status, code |-> "", message |-> detail, body |-> "detail_string"]

\* an exception no handler catches (main.py registers none): the server's
\* plain-text 500
Unhandled(exc) ==
    [status |-> 500, code |-> "", message |-> "Internal Server Error", body |-> "plain_text"]

InternalServerError == HttpException(500, "Internal server error.")

\* the route's two except clauses around a core call
RouteError(exc) == IF exc \in AppErrors THEN AppErrorToHttp(exc) ELSE InternalServerError

Success == [status |-> 200, code |-> "", message |-> "Resume scored successfully.",
            body |-> "score_response"]

(***************************************************************************)
(* app/security.py                                                         *)
(***************************************************************************)
\* require_api_key: the exception raised ("none": the request passes)
RequireApiKey(x_api_key) ==
    IF api_key = "" THEN "none"
    ELSE IF x_api_key # api_key THEN "AuthError" ELSE "none"

ClientKeyShared(req) == "anonymous"

\* request.headers.get("X-API-Key") or request.client.host or "anonymous"
ClientKey(req) ==
    IF req.x_api_key # "" THEN req.x_api_key
    ELSE IF req.host # "" THEN req.host ELSE "anonymous"

\* while dq and now - dq[0] > window_seconds: dq.popleft()
RECURSIVE DropExpired(_, _)
DropExpired(dq, t) ==
    IF dq # <<>> /\ t - Head(dq) > window_seconds THEN DropExpired(Tail(dq), t) ELSE dq

RateLimiterRecordingRejected(dq, t, max_requests) ==
    LET kept == DropExpired(dq, t)
    IN  [dq |-> Append(kept, t),
         exc |-> IF Len(kept) >= max_requests THEN "RateLimitError" ELSE "none"]

RateLimiterOffByOne(dq, t, max_requests) ==
    LET kept == DropExpired(dq, t)
    IN  IF Len(kept) > max_requests
        THEN [dq |-> kept, exc |-> "RateLimitError"]
        ELSE [dq |-> Append(kept, t), exc |-> "none"]

\* rate_limiter on the deque of one client key: the deque afterwards and the
\* exception raised
RateLimiter(dq, t, max_requests) ==
    LET kept == DropExpired(dq, t)
    IN  IF Len(kept) >= max_requests
        THEN [dq |-> kept, exc |-> "RateLimitError"]
        ELSE [dq |-> Append(kept, t), exc |-> "none"]

History(key) == IF key \in DOMAIN request_history THEN request_history[key] ELSE <<>>

(***************************************************************************)
(* app/validator, app/helper/text_extracter.py                             *)
(***************************************************************************)
Truthy(text_value) == text_value.given /\ text_value.raw > 0

EnsureAtLeastOne(text_value, file_value) ==
    IF ~Truthy(text_value) /\ ~file_value.given
    THEN HttpException(400, "required")
    ELSE NoResponse

\* _ensure_exactly_one: the response of the HTTPException raised, or NoResponse
EnsureExactlyOne(text_value, file_value) ==
    IF Truthy(text_value) /\ file_value.given
    THEN HttpException(400, "provide either text OR file, not both")
    ELSE IF ~Truthy(text_value) /\ ~file_value.given
    THEN HttpException(400, "required")
    ELSE NoResponse

Read(err, chars) == [err |-> err, chars |-> chars]

\* _read_text_from_upload: the HTTPException raised, or the length of the text
ReadTextFromUpload(file) ==
    IF file.bytes = 0 THEN Read(HttpException(400, "uploaded file is empty"), 0)
    ELSE IF file.bytes > max_upload_bytes
    THEN Read(HttpException(413, "uploaded file is too large"), 0)
    ELSE IF ~file.readable THEN Read(HttpException(400, "failed to read PDF"), 0)
    ELSE IF file.chars = 0 THEN Read(HttpException(400, "no readable text found"), 0)
    ELSE Read(NoResponse, file.chars)

\* normalize_score_input, lines 29-45 and 47-63: one of JD and resume
NormalizeOne(text_value, file_value, limit) ==
    IF file_value.given
    THEN ReadTextFromUpload(file_value)
    ELSE IF text_value.chars = 0 THEN Read(HttpException(400, "text is empty"), 0)
    ELSE IF text_value.chars > limit THEN Read(HttpException(413, "text is too long"), 0)
    ELSE Read(NoResponse, text_value.chars)

\* normalize_score_input: the HTTPException raised, or the NormalizedScoreInput
NormalizeScoreInput(req) ==
    LET e1 == EnsureExactlyOne(req.jd_text, req.jd_file)
        e2 == EnsureExactlyOne(req.resume_text, req.resume_file)
        jd == NormalizeOne(req.jd_text, req.jd_file, max_jd_chars)
        resume == NormalizeOne(req.resume_text, req.resume_file, max_resume_chars)
    IN  IF e1 # NoResponse THEN [err |-> e1, payload |-> NoPayload]
        ELSE IF e2 # NoResponse THEN [err |-> e2, payload |-> NoPayload]
        ELSE IF jd.err # NoResponse THEN [err |-> jd.err, payload |-> NoPayload]
        ELSE IF resume.err # NoResponse THEN [err |-> resume.err, payload |-> NoPayload]
        ELSE [err |-> NoResponse,
              payload |-> [set |-> TRUE, jd |-> jd.chars, resume |-> resume.chars]]

TextArgs(limit) ==
    {NoText, TextArg(0, 0), TextArg(2, 0), TextArg(limit, limit),
     TextArg(limit + 1, limit + 1)}

FileArgs(limit) ==
    {NoFile, FileArg(0, TRUE, 0), FileArg(max_upload_bytes + 1, TRUE, 1),
     FileArg(max_upload_bytes, FALSE, 0), FileArg(max_upload_bytes, TRUE, 0),
     FileArg(max_upload_bytes, TRUE, limit), FileArg(max_upload_bytes, TRUE, limit + 1)}

Requests ==
    [x_api_key : {""}, host : {"hostA"},
     jd_text : TextArgs(max_jd_chars), jd_file : FileArgs(max_jd_chars),
     resume_text : TextArgs(max_resume_chars), resume_file : FileArgs(max_resume_chars)]

(***************************************************************************)
(* generate_jd_questions (app/service/jd_question_generator.py)            *)
(*                                                                         *)
(* A generation reply is a reply as above; an "object" either matches the  *)
(* JDQuestions schema, with counts[i] questions in category i, or not.     *)
(* Question j of a category stands for the j-th entry of its list.         *)
(***************************************************************************)
GenReply(kind, schema_ok, counts) == [kind |-> kind, schema_ok |-> schema_ok, counts |-> counts]

QuestionCounts ==
    {c \in [1..4 -> 0..MaxListed] : c[1] + c[2] + c[3] + c[4] <= MaxTotal}

GenReplies ==
    {GenReply(k, FALSE, <<0, 0, 0, 0>>) : k \in FailureKinds \cup {"object"}}
    \cup {GenReply("object", TRUE, c) : c \in QuestionCounts}

JDQuestions(counts) ==
    [set |-> TRUE, lists |-> [i \in 1..4 |-> [j \in 1..counts[i] |-> j]]]

GenerateSwallowingErrors(reply) == [exc |-> "none", questions |-> JDQuestions(reply.counts)]

\* generate_jd_questions, lines 73-99: the exception raised, or the JDQuestions
GenerateJdQuestions(reply) ==
    IF CallOllamaChat(reply) # "none"
    THEN [exc |-> CallOllamaChat(reply), questions |-> NoQuestions]
    ELSE IF ExtractContent(reply) # "none"
    THEN [exc |-> ExtractContent(reply), questions |-> NoQuestions]
    ELSE IF ParseJson(reply) # "none" THEN [exc |-> "ValueError", questions |-> NoQuestions]
    ELSE IF reply.kind = "json_not_object" \/ ~reply.schema_ok
    THEN [exc |-> "ValueError", questions |-> NoQuestions]
    ELSE [exc |-> "none", questions |-> JDQuestions(reply.counts)]

(***************************************************************************)
(* score_resume_with_rag (app/service/resume_rag_scorer.py)                *)
(***************************************************************************)
NotCapped(questions, max_q) == questions

\* jd_questions.<category>[:max_q]
Capped(questions, max_q) == Slice(questions, 0, max_q)

WorkItem(i, q) == [category |-> Categories[i], question |-> q]

RECURSIVE ProcessFrom(_, _, _)
ProcessFrom(i, lists, max_q) ==
    IF i > 4 THEN <<>>
    ELSE [j \in 1..Len(Capped(lists[i], max_q)) |-> WorkItem(i, Capped(lists[i], max_q)[j])]
         \o ProcessFrom(i + 1, lists, max_q)

ProcessLastCategoryFirst(lists, max_q) ==
    [j \in 1..Len(Capped(lists[4], max_q)) |-> WorkItem(4, Capped(lists[4], max_q)[j])]
    \o [j \in 1..Len(Capped(lists[1], max_q)) |-> WorkItem(1, Capped(lists[1], max_q)[j])]
    \o [j \in 1..Len(Capped(lists[2], max_q)) |-> WorkItem(2, Capped(lists[2], max_q)[j])]
    \o [j \in 1..Len(Capped(lists[3], max_q)) |-> WorkItem(3, Capped(lists[3], max_q)[j])]

\* lines 183-188: the four process_category calls, as the list of (category,
\* question) pairs they go through, in order
ProcessOrder(lists, max_q) == ProcessFrom(1, lists, max_q)

RECURSIVE SumScores(_)
SumScores(scored) ==
    IF scored = <<>> THEN 0 ELSE Head(scored).score.v + SumScores(Tail(scored))

\* a float kept as the exact fraction num / den
Fraction(num, den) == [num |-> num, den |-> den]

AverageOfFirst(scored) ==
    IF scored # <<>> THEN Fraction(Head(scored).score.v, 1) ELSE Fraction(0, 1)

\* lines 190-193: avg_score
AverageScore(scored) ==
    IF scored # <<>> THEN Fraction(SumScores(scored), Len(scored)) ELSE Fraction(0, 1)

ResumeRagResult(scored) == [questions |-> scored, average_score |-> AverageScore(scored)]

LlmCall(what, category, question, kind) ==
    [what |-> what, category |-> category, question |-> question, kind |-> kind]

EmbedCall(what, category, question) ==
    [what |-> what, category |-> category, question |-> question]

\* _build_resume_index: chunk_text, then one embed_texts call for the batch of
\* chunk texts (the resume is not empty here, so neither is the batch)
BuildResumeIndex == <<EmbedCall("resume_chunks", "", 0)>>

RetrieveWithReindex(item) ==
    <<EmbedCall("resume_chunks", "", 0), EmbedCall("question", item.category, item.question)>>

\* _retrieve_chunks_for_question, line 40: one embed_texts([question]) call; the
\* chunks and their embeddings are the arguments built once by the caller
RetrieveChunksForQuestion(item) ==
    <<EmbedCall("question", item.category, item.question)>>

\* the scoring replies the request model draws from: every failure kind, and
\* objects with these scores
PipeScores ==
    {JVal("absent", 0), JVal("huge", 0), JVal("num", 0 - 5), JVal("num", 15)}

PipeReplies ==
    {Reply(k, JVal("absent", 0)) : k \in FailureKinds}
    \cup {Reply("object", sc) : sc \in PipeScores}

(***************************************************************************)
(* POST /score                                                             *)
(***************************************************************************)
Init ==
    /\ request \in Requests
    /\ now = 2 * window_seconds
    /\ max_questions_per_category \in 1..MaxPerCategory
    /\ max_requests_per_minute = MaxRate
    /\ request_history \in
          {[k \in {"hostA"} |-> h] : h \in {<<>>, [i \in 1..MaxRate |-> 2 * window_seconds - 1]}}
    /\ payload = NoPayload
    /\ jd_questions = NoQuestions
    /\ all_scored = <<>>
    /\ llm_calls = <<>>
    /\ embed_calls = <<>>
    /\ rag_result = <<>>
    /\ response = NoResponse
    /\ raised = ""
    /\ http_posts = 0
    /\ pc = "dependencies"
    /\ environ = [EMBED_MODEL_NAME |-> "model", APP_API_KEY |-> ""]
    /\ proc = "serving"
    /\ log = <<>>
    /\ IdleChunk
    /\ IdleRetrieve
    /\ IdleOne
    /\ IdleSide

\* Depends(rate_limiter), itself Depends(require_api_key): both call
\* get_settings() first; an exception raised here meets no handler
Gate ==
    /\ pc = "dependencies"
    /\ LET settings == GetSettings(environ)
           auth == RequireApiKey(request.x_api_key)
           key == ClientKey(request)
           rl == RateLimiter(History(key), now, max_requests_per_minute)
       IN  IF settings # "none"
           THEN /\ response' = Unhandled(settings)
                /\ raised' = settings
                /\ pc' = "done"
                /\ UNCHANGED request_history
           ELSE IF auth # "none"
           THEN /\ response' = Unhandled(auth)
                /\ raised' = auth
                /\ pc' = "done"
                /\ UNCHANGED request_history
           ELSE /\ request_history' =
                      [k \in DOMAIN request_history \cup {key} |->
                          IF k = key THEN rl.dq ELSE request_history[k]]
                /\ IF rl.exc # "none"
                   THEN response' = Unhandled(rl.exc) /\ raised' = rl.exc /\ pc' = "done"
                   ELSE response' = response /\ raised' = raised /\ pc' = "normalize"
    /\ UNCHANGED <<request, now, settingsVars, payload, jd_questions, all_scored,
                   llm_calls, embed_calls, rag_result, http_posts, procVars>>

\* Depends(normalize_score_input); the handler keeps only the payload
Normalize ==
    /\ pc = "normalize"
    /\ LET r == NormalizeScoreInput(request)
       IN  IF r.err # NoResponse
           THEN /\ response' = r.err
                /\ raised' = "HTTPException"
                /\ pc' = "done"
                /\ UNCHANGED <<request, payload>>
           ELSE /\ payload' = r.payload
                /\ request' = NoRequest
                /\ pc' = "generate"
                /\ UNCHANGED <<response, raised>>
    /\ UNCHANGED <<request_history, now, settingsVars, jd_questions, all_scored,
                   llm_calls, embed_calls, rag_result, http_posts, procVars>>

\* score_resume, lines 54-63
Generate ==
    /\ pc = "generate"
    /\ \E reply \in GenReplies :
          LET r == GenerateJdQuestions(reply)
          IN  /\ llm_calls' = Append(llm_calls, LlmCall("generate", "", 0, reply.kind))
              /\ http_posts' = http_posts + HttpAttempts(reply)
              /\ IF r.exc # "none"
                 THEN /\ response' = RouteError(r.exc)
                      /\ raised' = r.exc
                      /\ pc' = "done"
                      /\ UNCHANGED jd_questions
                 ELSE /\ jd_questions' = r.questions
                      /\ pc' = "score"
                      /\ UNCHANGED <<response, raised>>
    /\ UNCHANGED <<request, request_history, now, settingsVars, payload, all_scored,
                   embed_calls, rag_result, procVars>>

\* score_resume_with_rag, lines 158-168: the length check and the resume index
ScoreStart ==
    /\ pc = "score"
    /\ IF payload.resume > max_resume_chars
       THEN /\ response' = RouteError("ValidationAppError")
            /\ raised' = "ValidationAppError"
            /\ pc' = "done"
            /\ UNCHANGED embed_calls
       ELSE /\ embed_calls' = embed_calls \o BuildResumeIndex
            /\ pc' = "loop"
            /\ UNCHANGED <<response, raised>>
    /\ all_scored' = <<>>
    /\ UNCHANGED <<request, request_history, now, settingsVars, payload, jd_questions,
                   llm_calls, rag_result, http_posts, procVars>>

\* one pass of the loop of process_category, lines 171-181
ScoreStep ==
    /\ pc = "loop"
    /\ LET work == ProcessOrder(jd_questions.lists, max_questions_per_category)
           k == Len(all_scored) + 1
       IN  /\ k <= Len(work)
           /\ \E reply \in PipeReplies :
                 LET r == ScoreSingleQuestion(work[k].category, work[k].question, reply)
                 IN  /\ embed_calls' = embed_calls \o RetrieveChunksForQuestion(work[k])
                     /\ llm_calls' = Append(llm_calls,
                            LlmCall("score", work[k].category, work[k].question, reply.kind))
                     /\ http_posts' = http_posts + HttpAttempts(reply)
                     /\ IF r.exc # "none"
                        THEN /\ response' = RouteError(r.exc)
                             /\ raised' = r.exc
                             /\ pc' = "done"
                             /\ UNCHANGED all_scored
                        ELSE /\ all_scored' = all_scored \o r.scored
                             /\ UNCHANGED <<response, raised, pc>>
    /\ UNCHANGED <<request, request_history, now, settingsVars, payload, jd_questions,
                   rag_result, procVars>>

\* lines 190-198, then score_resume lines 79-93
Finish ==
    /\ pc = "loop"
    /\ Len(all_scored) = Len(ProcessOrder(jd_questions.lists, max_questions_per_category))
    /\ rag_result' = <<ResumeRagResult(all_scored)>>
    /\ response' = Success
    /\ pc' = "done"
    /\ UNCHANGED <<request, request_history, now, settingsVars, payload, jd_questions,
                   all_scored, llm_calls, embed_calls, raised, http_posts, procVars>>

Next ==
    \/ Gate /\ UNCHANGED <<chunkVars, retrVars, oneVars, sideVars>>
    \/ Normalize /\ UNCHANGED <<chunkVars, retrVars, oneVars, sideVars>>
    \/ Generate /\ UNCHANGED <<chunkVars, retrVars, oneVars, sideVars>>
    \/ ScoreStart /\ UNCHANGED <<chunkVars, retrVars, oneVars, sideVars>>
    \/ ScoreStep /\ UNCHANGED <<chunkVars, retrVars, oneVars, sideVars>>
    \/ Finish /\ UNCHANGED <<chunkVars, retrVars, oneVars, sideVars>>

Spec == Init /\ [][Next]_vars

(***************************************************************************)
(* Properties of a /score request                                          *)
(***************************************************************************)
Done == pc = "done"

Returned == Done /\ rag_result # <<>>

Last(seq) == seq[Len(seq)]

\* the calls of one kind, in order
RECURSIVE Only(_, _)
Only(calls, what) ==
    IF calls = <<>> THEN <<>>
    ELSE IF Head(calls).what = what THEN <<Head(calls)>> \o Only(Tail(calls), what)
    ELSE Only(Tail(calls), what)

CategoryIndex(c) == CHOOSE i \in 1..4 : Categories[i] = c

\* (category, question) pairs in processing order: categories in the fixed
\* order, questions of a category in the order of the input list
InFixedOrder(items) ==
    \A a, b \in 1..Len(items) :
        a < b =>
            \/ CategoryIndex(items[a].category) < CategoryIndex(items[b].category)
            \/ /\ items[a].category = items[b].category
               /\ items[a].question < items[b].question

MalformedKinds == {"not_json", "no_message", "content_not_str", "json_not_object"}

\* C3: a malformed reply for one question (content that is not JSON, no message
\* content, JSON that is not an object) does not fail score_resume_with_rag: a
\* result is returned, with an entry for every question to score.
C3_MalformedReplyIsolated ==
    (/\ Done
     /\ llm_calls # <<>>
     /\ Last(llm_calls).what = "score"
     /\ Last(llm_calls).kind \in MalformedKinds) =>
        /\ response = Success
        /\ rag_result # <<>>
        /\ Len(rag_result[1].questions) =
              Len(ProcessOrder(jd_questions.lists, max_questions_per_category))

\* the resume text of the request, as given or as extracted, is over the limit
ResumeTooLong ==
    IF payload.set THEN payload.resume > max_resume_chars
    ELSE IF request.resume_file.given THEN request.resume_file.chars > max_resume_chars
    ELSE request.resume_text.chars > max_resume_chars

\* C4: a request with a resume longer than max_resume_chars that got past
\* the rate limiter ends in a validation failure and makes no LLM call.
C4_OversizedResumeNoLlmCall ==
    (Done /\ ResumeTooLong /\ response.body # "plain_text") =>
        /\ response.status \in {400, 413}
        /\ llm_calls = <<>>

\* the sum of the scores, added up along the list
TotalOf(questions) ==
    LET f[i \in 0..Len(questions)] == IF i = 0 THEN 0 ELSE f[i - 1] + questions[i].score.v
    IN  f[Len(questions)]

\* C6: in a returned result average_score is the mean of the scores of the
\* questions in the result, is 0.0 when there is none, and lies in [0, 10].
C6_AverageIsMean ==
    Returned =>
        LET r == rag_result[1]
        IN  /\ r.average_score.den > 0
            /\ (r.questions = <<>>) => r.average_score.num = 0
            /\ (r.questions # <<>>) =>
                  r.average_score.num * Len(r.questions) =
                      TotalOf(r.questions) * r.average_score.den
            /\ 0 <= r.average_score.num
            /\ r.average_score.num <= 10 * r.average_score.den

\* a mean of different scores
C6_Witness ==
    /\ Returned
    /\ Len(rag_result[1].questions) >= 3
    /\ \E i, j \in 1..Len(rag_result[1].questions) :
          rag_result[1].questions[i].score # rag_result[1].questions[j].score

\* C7: the per-question LLM calls are issued category by category in the
\* fixed order and, within a category, in the order of the input list; a
\* returned result lists the questions in that same order.
C7_ResultOrdering ==
    /\ InFixedOrder(Only(llm_calls, "score"))
    /\ Returned =>
          /\ InFixedOrder(rag_result[1].questions)
          /\ Len(Only(llm_calls, "score")) = Len(rag_result[1].questions)
          /\ \A i \in 1..Len(rag_result[1].questions) :
                /\ Only(llm_calls, "score")[i].category = rag_result[1].questions[i].category
                /\ Only(llm_calls, "score")[i].question = rag_result[1].questions[i].question

\* a result with questions of several categories, two of one category
C7_Witness ==
    /\ Returned
    /\ \E i, j, k \in 1..Len(rag_result[1].questions) :
          /\ i < j /\ j < k
          /\ rag_result[1].questions[i].category = rag_result[1].questions[j].category
          /\ rag_result[1].questions[j].category # rag_result[1].questions[k].category

InCategory(items, i) == {a \in 1..Len(items) : items[a].category = Categories[i]}

\* C8: no LLM call and no retrieval is made for a question beyond the first
\* max_questions_per_category of its category; a returned result holds, for
\* each category with n questions, exactly the first min(n, max_q) of them.
C8_PerCategoryCap ==
    /\ \A a \in 1..Len(llm_calls) :
          llm_calls[a].what = "score" => llm_calls[a].question <= max_questions_per_category
    /\ \A a \in 1..Len(embed_calls) :
          embed_calls[a].what = "question" =>
              embed_calls[a].question <= max_questions_per_category
    /\ Returned =>
          \A i \in 1..4 :
              LET n == Len(jd_questions.lists[i])
                  kept == InCategory(rag_result[1].questions, i)
              IN  /\ Cardinality(kept) = Min(n, max_questions_per_category)
                  /\ {rag_result[1].questions[a].question : a \in kept} =
                        {jd_questions.lists[i][j] : j \in 1..Min(n, max_questions_per_category)}

\* a result returned although a category had more questions than the cap
C8_Witness ==
    /\ Returned
    /\ \E i \in 1..4 : Len(jd_questions.lists[i]) > max_questions_per_category
    /\ rag_result[1].questions # <<>>

\* C9: a generation that fails by a transport failure, by content that is
\* not JSON or by JSON that does not match the schema reaches the caller as
\* LLMBackendError (502, llm_backend_error), after exactly one backend call.
C9_GenerationFailureIsBackendError ==
    (/\ Done
     /\ ~jd_questions.set
     /\ llm_calls # <<>>
     /\ llm_calls[1].kind \in {"transport_error", "not_json", "json_not_object", "object"}) =>
        /\ response = AppErrorToHttp("LLMBackendError")
        /\ Len(llm_calls) = 1

\* C10: every failing request ends with an error that carries a code and a
\* message.
C10_FailuresAreStructured ==
    (Done /\ response.status # 200) =>
        /\ response.code # ""
        /\ response.message # ""
        /\ response.body = "code_and_message"

(***************************************************************************)
(* The dependencies of the protected endpoints (/score, /score/estimate,   *)
(* /dummy) over requests that arrive one after the other: in SpecGate      *)
(* while time passes in a process that runs with its model configured, in  *)
(* SpecStartup from the start of the process in every environment.  What   *)
(* the endpoint does once the dependencies let a request through is not    *)
(* part of these specifications.                                           *)
(***************************************************************************)
Hosts == {"hostA", "hostB"}
Headers == {"", "secret"}
Environs == [EMBED_MODEL_NAME : {"", "model"}, APP_API_KEY : {"", "secret"}]

\* a request to a protected endpoint, as far as the dependencies read it
GateRequest(host, x_api_key) ==
    [NoRequest EXCEPT !.host = host, !.x_api_key = x_api_key]

\* importing app.main imports embedding_service, whose line 11 runs
\* SentenceTransformer(os.getenv("EMBED_MODEL_NAME")).  With the variable not
\* set the argument is None; what the library does with None is outside the
\* repository: it builds a model without modules, or it raises.  Nothing
\* else at import reads the settings (get_settings is only called by the
\* dependencies and the core, at request time).
ImportOutcomes(env) ==
    IF env.EMBED_MODEL_NAME = "" THEN {"serving", "failed"} ELSE {"serving"}

\* one answered request
Answered(endpoint, req, t, exc, resp) ==
    [endpoint |-> endpoint, host |-> req.host, x_api_key |-> req.x_api_key,
     key |-> IF endpoint = "protected" THEN ClientKey(req) ELSE "",
     time |-> t, exc |-> exc, status |-> resp.status, code |-> resp.code]

\* the step of time.time() between two looks at the clock
TickSeconds == window_seconds \div 2

\* no request yet, the core never entered
NoTraffic ==
    /\ log = <<>>
    /\ request = NoRequest
    /\ request_history = <<>>
    /\ now = 0
    /\ max_questions_per_category = 1
    /\ payload = NoPayload
    /\ jd_questions = NoQuestions
    /\ all_scored = <<>>
    /\ llm_calls = <<>>
    /\ embed_calls = <<>>
    /\ rag_result = <<>>
    /\ response = NoResponse
    /\ raised = ""
    /\ http_posts = 0
    /\ pc = "idle"
    /\ IdleChunk
    /\ IdleRetrieve
    /\ IdleOne
    /\ IdleSide

InitGate ==
    /\ environ = [EMBED_MODEL_NAME |-> "model", APP_API_KEY |-> ""]
    /\ proc = "serving"
    /\ max_requests_per_minute \in 1..MaxRate
    /\ NoTraffic

InitStartup ==
    /\ environ \in Environs
    /\ proc = "starting"
    /\ max_requests_per_minute = MaxRate
    /\ NoTraffic

coreVars == <<payload, jd_questions, all_scored, llm_calls, embed_calls, rag_result,
              http_posts>>

\* uvicorn imports app.main
Startup ==
    /\ proc = "starting"
    /\ proc' \in ImportOutcomes(environ)
    /\ UNCHANGED <<environ, log, request, request_history, now, settingsVars, response,
                   raised, pc, coreVars>>

\* GET /health (main.py): no dependency, no settings
Health ==
    /\ proc = "serving"
    /\ pc = "idle"
    /\ Len(log) < MaxRequests
    /\ log' = Append(log, Answered("/health", NoRequest, now, "", [NoResponse EXCEPT !.status = 200]))
    /\ UNCHANGED <<environ, proc, request, request_history, now, settingsVars, response,
                   raised, pc, coreVars>>

\* a request to a protected endpoint arrives
Arrive ==
    /\ proc = "serving"
    /\ pc = "idle"
    /\ Len(log) < MaxRequests
    /\ \E host \in Hosts, x_api_key \in Headers : request' = GateRequest(host, x_api_key)
    /\ pc' = "dependencies"
    /\ UNCHANGED <<environ, proc, log, request_history, now, settingsVars, response,
                   raised, coreVars>>

\* the request is answered: by the error of a dependency, or by the endpoint
\* (status 0 here: the endpoint is not part of this specification)
Complete ==
    /\ proc = "serving"
    /\ request # NoRequest
    /\ pc \in {"normalize", "done"}
    /\ log' = Append(log, Answered("protected", request, now, raised, response))
    /\ request' = NoRequest
    /\ response' = NoResponse
    /\ raised' = ""
    /\ pc' = "idle"
    /\ UNCHANGED <<environ, proc, request_history, now, settingsVars, coreVars>>

\* time passes between two requests
Tick ==
    /\ proc = "serving"
    /\ pc = "idle"
    /\ now < MaxTicks * TickSeconds
    /\ now' = now + TickSeconds
    /\ UNCHANGED <<environ, proc, log, request, request_history, settingsVars, response,
                   raised, pc, coreVars>>

NextGate ==
    \/ Arrive /\ UNCHANGED <<chunkVars, retrVars, oneVars, sideVars>>
    \/ Gate /\ UNCHANGED <<chunkVars, retrVars, oneVars, sideVars>>
    \/ Complete /\ UNCHANGED <<chunkVars, retrVars, oneVars, sideVars>>
    \/ Tick /\ UNCHANGED <<chunkVars, retrVars, oneVars, sideVars>>

SpecGate == InitGate /\ [][NextGate]_vars

NextStartup ==
    \/ Startup /\ UNCHANGED <<chunkVars, retrVars, oneVars, sideVars>>
    \/ Health /\ UNCHANGED <<chunkVars, retrVars, oneVars, sideVars>>
    \/ Arrive /\ UNCHANGED <<chunkVars, retrVars, oneVars, sideVars>>
    \/ Gate /\ UNCHANGED <<chunkVars, retrVars, oneVars, sideVars>>
    \/ Complete /\ UNCHANGED <<chunkVars, retrVars, oneVars, sideVars>>

SpecStartup == InitStartup /\ [][NextStartup]_vars

(***************************************************************************)
(* Properties of the dependencies                                          *)
(***************************************************************************)
Protected(i) == log[i].endpoint = "protected"

\* request i went through the rate limiter and was recorded by it
Accepted(i) == Protected(i) /\ log[i].exc = ""

RateLimited(i) == Protected(i) /\ log[i].exc = "RateLimitError"

\* C11: a request rejected by require_api_key is answered 401 with code
\* auth_error, a request rejected by rate_limiter 429 with code rate_limited.
C11_GateErrorsReportedDistinctly ==
    \A i \in 1..Len(log) :
        /\ (Protected(i) /\ log[i].exc = "AuthError") =>
               log[i].status = 401 /\ log[i].code = "auth_error"
        /\ RateLimited(i) => log[i].status = 429 /\ log[i].code = "rate_limited"

\* C12: with APP_API_KEY set in the environment, every request to a protected
\* endpoint whose X-API-Key is missing or different is rejected with
\* AuthError, before the rate limiter and the endpoint.
C12_ApiKeyGate ==
    (environ.EMBED_MODEL_NAME # "" /\ environ.APP_API_KEY # "") =>
        \A i \in 1..Len(log) :
            (Protected(i) /\ log[i].x_api_key # environ.APP_API_KEY) =>
                log[i].exc = "AuthError"

\* the requests before request i that the rate limiter recorded for the same
\* client key at most window_seconds before request i
RecordedBefore(i) ==
    {j \in 1..(i - 1) : /\ Accepted(j)
                        /\ log[j].key = log[i].key
                        /\ log[i].time - log[j].time <= window_seconds}

ClientKeys == {log[i].key : i \in {j \in 1..Len(log) : Protected(j)}}

\* the instants at which the clock was looked at; every timestamp is one of
\* them, and a window that ends between two of them holds no more timestamps
\* than the window that ends at the earlier one
Instants == {k * TickSeconds : k \in 0..MaxTicks}

\* the requests of a client key accepted with a timestamp in [t - 60, t]
AcceptedIn(key, t) ==
    {j \in 1..Len(log) : /\ Accepted(j)
                         /\ log[j].key = key
                         /\ t - window_seconds <= log[j].time
                         /\ log[j].time <= t}

\* C13: for every client key and every instant t, at most
\* max_requests_per_minute requests of the key were accepted with a timestamp
\* in [t - 60, t]; a request that reaches the rate limiter is rejected exactly
\* when max_requests_per_minute requests of its key were recorded in the 60 s
\* before it, so a key is accepted again once enough of them are older.
C13_SlidingWindow ==
    /\ \A key \in ClientKeys : \A t \in Instants :
           Cardinality(AcceptedIn(key, t)) <= max_requests_per_minute
    /\ \A i \in 1..Len(log) :
           (Accepted(i) \/ RateLimited(i)) =>
               (RateLimited(i) <=>
                    Cardinality(RecordedBefore(i)) >= max_requests_per_minute)

\* a request accepted, a request of the same key rejected exactly 60 s later,
\* and one accepted again after the first has left the window
C13_Witness ==
    \E i, j, k \in 1..Len(log) :
        /\ i < j /\ j < k
        /\ log[i].key = log[j].key /\ log[j].key = log[k].key
        /\ Accepted(i) /\ RateLimited(j) /\ Accepted(k)
        /\ log[j].time - log[i].time = window_seconds
        /\ log[k].time - log[i].time > window_seconds

\* the earlier requests that count against request i if the count is kept per
\* host
RecordedBeforeOfHost(i) ==
    {j \in 1..(i - 1) : /\ Accepted(j)
                        /\ log[j].host = log[i].host
                        /\ log[i].time - log[j].time <= window_seconds}

\* the earlier requests that count against request i: those with the same
\* X-API-Key if either request carries one, those of the same host if neither
\* does
RecordedBeforeOfClient(i) ==
    {j \in 1..(i - 1) : /\ Accepted(j)
                        /\ log[i].time - log[j].time <= window_seconds
                        /\ IF log[i].x_api_key # "" \/ log[j].x_api_key # ""
                           THEN log[j].x_api_key = log[i].x_api_key
                           ELSE log[j].host = log[i].host}

\* C14 as stated: the count is kept per host, so a request is only rejected
\* when its own host has used up the budget, whatever X-API-Key is sent.
C14_PerHostBudget ==
    \A i \in 1..Len(log) :
        RateLimited(i) => Cardinality(RecordedBeforeOfHost(i)) >= max_requests_per_minute

\* C14: the count is kept per client key, the X-API-Key of the request if it
\* has one and the host otherwise: a request is rejected only when requests
\* with its own client key have used up the budget, and is accepted whenever
\* they have not; hosts sending the same X-API-Key share one budget.
C14_PerKeyBudget ==
    \A i \in 1..Len(log) :
        /\ RateLimited(i) =>
               Cardinality(RecordedBeforeOfClient(i)) >= max_requests_per_minute
        /\ Accepted(i) =>
               Cardinality(RecordedBeforeOfClient(i)) < max_requests_per_minute

\* with a budget of one, a host without X-API-Key is accepted and then
\* rejected, and after that another host without X-API-Key is accepted at the
\* same instant
C14_Witness ==
    /\ max_requests_per_minute = 1
    /\ \E i, j, k \in 1..Len(log) :
           /\ i < j /\ j < k
           /\ Accepted(i) /\ RateLimited(j) /\ Accepted(k)
           /\ log[i].time = log[k].time
           /\ log[i].x_api_key = "" /\ log[j].x_api_key = "" /\ log[k].x_api_key = ""
           /\ log[i].host = log[j].host
           /\ log[k].host # log[i].host

\* C15: with EMBED_MODEL_NAME missing the process fails at startup and never
\* answers a request.
C15_MissingEmbedModelIsFatal ==
    environ.EMBED_MODEL_NAME = "" => (proc # "serving" /\ log = <<>>)

(***************************************************************************)
(* Further properties of a /score request                                  *)
(***************************************************************************)
\* a step of score_resume_with_rag has been taken
ScoringStarted ==
    \/ embed_calls # <<>>
    \/ Only(llm_calls, "score") # <<>>
    \/ pc = "loop"
    \/ rag_result # <<>>

\* C16: no scoring step (resume index, question embedding, per-question LLM
\* call) is taken before generate_jd_questions has returned a JDQuestions from
\* a well-formed reply; after a failed generation the request is over with an
\* error and without any scoring step.
C16_GenerationPrecedesScoring ==
    /\ ScoringStarted =>
           /\ jd_questions.set
           /\ Len(Only(llm_calls, "generate")) = 1
           /\ llm_calls[1].what = "generate"
           /\ llm_calls[1].kind = "object"
    /\ (llm_calls # <<>> /\ ~jd_questions.set) =>
           /\ Done
           /\ response.status # 200
           /\ ~ScoringStarted

\* the second question is being scored, after a generation that returned
C16_Witness ==
    /\ pc = "loop"
    /\ Len(all_scored) = 1
    /\ Len(embed_calls) = 2
    /\ jd_questions.set

\* C17: a successful request that scores N questions has made N + 1 backend
\* calls, the first for the generation and one per scored question, and has
\* called the embedder once for the resume chunks, before anything else, and
\* once per scored question.
C17_CallCounts ==
    Returned =>
        LET n == Len(rag_result[1].questions)
        IN  /\ n = Len(ProcessOrder(jd_questions.lists, max_questions_per_category))
            /\ Len(llm_calls) = n + 1
            /\ Len(Only(llm_calls, "generate")) = 1
            /\ Len(Only(llm_calls, "score")) = n
            /\ Len(embed_calls) = n + 1
            /\ embed_calls[1].what = "resume_chunks"
            /\ Len(Only(embed_calls, "resume_chunks")) = 1
            /\ Len(Only(embed_calls, "question")) = n
            /\ \A i \in 1..n :
                   /\ embed_calls[i + 1].category = rag_result[1].questions[i].category
                   /\ embed_calls[i + 1].question = rag_result[1].questions[i].question
                   /\ llm_calls[i + 1].category = rag_result[1].questions[i].category
                   /\ llm_calls[i + 1].question = rag_result[1].questions[i].question

\* a result with three scored questions
C17_Witness ==
    /\ Returned
    /\ Len(rag_result[1].questions) = 3
    /\ Len(llm_calls) = 4

\* C18: every call of call_ollama_chat makes one HTTP attempt; a call that
\* meets a transport failure (connection error, timeout, error status,
\* undecodable body) raises LLMBackendError, which ends the request as such
\* and not as a generic exception; every other call returns the parsed reply.
C18_LlmClientContract ==
    /\ http_posts = Len(llm_calls)
    /\ \A i \in 1..Len(llm_calls) :
           /\ CallOllamaChat(llm_calls[i]) \in {"none", "LLMBackendError"}
           /\ llm_calls[i].kind \in TransportKinds =>
                  /\ i = Len(llm_calls)
                  /\ Done
                  /\ raised = "LLMBackendError"
                  /\ response = AppErrorToHttp("LLMBackendError")
           /\ (raised = "LLMBackendError" /\ i = Len(llm_calls)) =>
                  llm_calls[i].kind \in TransportKinds

\* the second backend call of a request met an undecodable body
C18_Witness ==
    /\ Done
    /\ Len(llm_calls) = 2
    /\ llm_calls[2].kind = "undecodable_body"
    /\ http_posts = 2
    /\ raised = "LLMBackendError"

\* the text field counts as provided when it is a non-empty string, the file
\* field when an upload was sent
BothProvided(text_value, file_value) == Truthy(text_value) /\ file_value.given

NeitherProvided(text_value, file_value) == ~Truthy(text_value) /\ ~file_value.given

\* the one provided has no content: a text that is blank, a file of zero
\* bytes or a readable file without text
EmptyContent(text_value, file_value) ==
    \/ Truthy(text_value) /\ ~file_value.given /\ text_value.chars = 0
    \/ /\ ~Truthy(text_value)
       /\ file_value.given
       /\ (file_value.bytes = 0 \/ (file_value.readable /\ file_value.chars = 0))

InvalidField(text_value, file_value) ==
    \/ BothProvided(text_value, file_value)
    \/ NeitherProvided(text_value, file_value)
    \/ EmptyContent(text_value, file_value)

InvalidInput(req) ==
    \/ InvalidField(req.jd_text, req.jd_file)
    \/ InvalidField(req.resume_text, req.resume_file)

\* C19: a request that, for the JD or for the resume, provides both the text
\* and the file, or neither, or empty content, is rejected by
\* normalize_score_input with a client error, and no backend call and no
\* embedder call is made for it.
C19_ValidationPrecedesCore ==
    [][(pc = "normalize" /\ InvalidInput(request)) =>
          /\ pc' = "done"
          /\ raised' = "HTTPException"
          /\ response'.status \in {400, 413}
          /\ response'.body = "detail_string"
          /\ llm_calls' = <<>>
          /\ embed_calls' = <<>>
          /\ http_posts' = 0]_vars

\* a request with both jd_text and jd_file has been rejected, and one with a
\* blank resume text
C19_Witness ==
    /\ Done
    /\ raised = "HTTPException"
    /\ response.status = 400
    /\ llm_calls = <<>>
    /\ embed_calls = <<>>
    /\ \/ BothProvided(request.jd_text, request.jd_file)
       \/ EmptyContent(request.resume_text, request.resume_file)

\* C20: no JD longer than max_jd_chars is sent to the backend, whether it came
\* as jd_text or was extracted from jd_file.
C20_JdLengthLimit ==
    llm_calls # <<>> => payload.jd <= max_jd_chars

\* the failures of the LLM step that C27 names: transport failure, reply
\* without string message content, content that is not JSON
FatalKinds == TransportKinds \cup {"no_message", "content_not_str", "not_json"}

\* C27: when the LLM step of the k-th question fails, that call is the last
\* backend call and its retrieval the last embedder call of the request, the
\* k - 1 questions scored before it are not returned, no ResumeRagResult is
\* built and the request ends with an error.
C27_AllOrNothing ==
    \A i \in 1..Len(llm_calls) :
        (llm_calls[i].what = "score" /\ llm_calls[i].kind \in FatalKinds) =>
            /\ i = Len(llm_calls)
            /\ Done
            /\ raised \in {"LLMBackendError", "ValueError"}
            /\ rag_result = <<>>
            /\ response.status \in {500, 502}
            /\ response.body # "score_response"
            /\ Len(all_scored) = Len(Only(llm_calls, "score")) - 1
            /\ Len(Only(embed_calls, "question")) = Len(Only(llm_calls, "score"))

\* the second question met content that is not JSON after the first was scored
C27_Witness ==
    /\ Done
    /\ Len(all_scored) = 1
    /\ Len(llm_calls) = 3
    /\ llm_calls[3].kind = "not_json"
    /\ rag_result = <<>>

HistoryOf(history, key) == IF key \in DOMAIN history THEN history[key] ELSE <<>>

\* the request between the rate limiter and its answer, if it was accepted
InFlight(key) == pc = "normalize" /\ ClientKey(request) = key

\* C29: a request rejected by rate_limiter only removes expired timestamps
\* from its key's history and changes no other key's history; the histories
\* hold timestamps of accepted requests only; and a request after rejected
\* ones of its key is accepted as soon as fewer than max_requests accepted
\* requests of the key are at most 60 s old.
C29_RejectedLeaveNoTrace ==
    /\ [][(pc = "dependencies" /\ raised' = "RateLimitError") =>
            LET key == ClientKey(request)
                old == History(key)
                new == HistoryOf(request_history', key)
            IN  /\ \E n \in 0..Len(old) :
                       /\ new = SubSeq(old, n + 1, Len(old))
                       /\ \A j \in 1..n : now - old[j] > window_seconds
                /\ \A k \in DOMAIN request_history \ {key} :
                       HistoryOf(request_history', k) = request_history[k]
                /\ DOMAIN request_history' \subseteq DOMAIN request_history \cup {key}]_vars
    /\ [](\A key \in DOMAIN request_history :
             /\ \A j \in 1..Len(request_history[key]) :
                    \/ \E i \in 1..Len(log) :
                           /\ Accepted(i)
                           /\ log[i].key = key
                           /\ log[i].time = request_history[key][j]
                    \/ InFlight(key) /\ request_history[key][j] = now
             /\ Len(request_history[key]) <=
                    Cardinality({i \in 1..Len(log) : Accepted(i) /\ log[i].key = key})
                    + (IF InFlight(key) THEN 1 ELSE 0))
    /\ [](\A i, j \in 1..Len(log) :
             (/\ j < i
              /\ RateLimited(j)
              /\ log[j].key = log[i].key
              /\ Accepted(i) \/ RateLimited(i)
              /\ Cardinality(RecordedBefore(i)) < max_requests_per_minute) => Accepted(i))

\* with a budget of one: a request accepted, one of the same key rejected half
\* a window later, and one accepted as soon as the first is more than 60 s old
C29_Witness ==
    /\ max_requests_per_minute = 1
    /\ \E i, j, k \in 1..Len(log) :
           /\ i < j /\ j < k
           /\ log[i].key = log[j].key /\ log[j].key = log[k].key
           /\ Accepted(i) /\ RateLimited(j) /\ Accepted(k)
           /\ log[j].time = log[i].time + TickSeconds
           /\ log[k].time = log[i].time + window_seconds + TickSeconds

\* the requests of a host accepted with a timestamp in [t - 60, t]
AcceptedOfHostIn(host, t) ==
    {j \in 1..Len(log) : /\ Accepted(j)
                         /\ log[j].host = host
                         /\ t - window_seconds <= log[j].time
                         /\ log[j].time <= t}

\* C30: whatever X-API-Key values a host sends, at most
\* max_requests_per_minute of its requests are accepted within 60 s.
C30_NoBypassByHeaderRotation ==
    \A host \in Hosts : \A t \in Instants :
        Cardinality(AcceptedOfHostIn(host, t)) <= max_requests_per_minute

(***************************************************************************)
(* _parse_json_from_content (jd_question_generator.py) and                 *)
(* _parse_scoring_json (resume_rag_scorer.py)                              *)
(*                                                                         *)
(* A content is a sequence of characters: the backtick, the letters of     *)
(* "json" in both cases, the braces and " ", which stands for any          *)
(* whitespace (a newline too).  A character between the braces of an       *)
(* object stands for one of its members.                                   *)
(***************************************************************************)
\* the character U+0060
Backtick == "backtick"

Ticks(n) == [i \in 1..n |-> Backtick]

TagJson == <<"j", "s", "o", "n">>

\* str.lower()
Lower(c) ==
    CASE c = "J" -> "j"
      [] c = "S" -> "s"
      [] c = "O" -> "o"
      [] c = "N" -> "n"
      [] OTHER -> c

LowerText(t) == [i \in 1..Len(t) |-> Lower(t[i])]

\* str.startswith, str.endswith
StartsWith(t, prefix) ==
    Len(t) >= Len(prefix) /\ SubSeq(t, 1, Len(prefix)) = prefix

EndsWith(t, suffix) ==
    Len(t) >= Len(suffix) /\ SubSeq(t, Len(t) - Len(suffix) + 1, Len(t)) = suffix

\* text.lstrip(Backtick)
RECURSIVE LStripBackticks(_)
LStripBackticks(t) ==
    IF t # <<>> /\ Head(t) = Backtick THEN LStripBackticks(Tail(t)) ELSE t

\* json.loads: outer whitespace is ignored; an object is "{", members, "}",
\* and whitespace between members does not change the value; every other
\* text of this alphabet is rejected
JsonLoads(t) ==
    LET u == Strip(t)
        inner == SubSeq(u, 2, Len(u) - 1)
    IN  IF /\ Len(u) >= 2
           /\ u[1] = "{"
           /\ u[Len(u)] = "}"
           /\ \A i \in 1..Len(inner) : inner[i] \notin {"{", "}"}
        THEN [exc |-> "none", value |-> SelectSeq(inner, LAMBDA c : c \notin Whitespace)]
        ELSE [exc |-> "JSONDecodeError", value |-> <<>>]

ParseKeepingTag(c) ==
    LET text0 == Strip(c)
        text1 == LStripBackticks(text0)
        text3 == IF EndsWith(text1, Ticks(3)) THEN Strip(Slice(text1, 0, 0 - 3)) ELSE text1
    IN  IF StartsWith(text0, Ticks(3)) THEN JsonLoads(text3) ELSE JsonLoads(text0)

\* _parse_json_from_content, lines 44-57
ParseJsonFromContent(c) ==
    LET text0 == Strip(c)
        text1 == LStripBackticks(text0)
        text2 == IF StartsWith(LowerText(text1), TagJson)
                 THEN Strip(Slice(text1, 4, Len(text1)))
                 ELSE text1
        text3 == IF EndsWith(text2, Ticks(3)) THEN Strip(Slice(text2, 0, 0 - 3)) ELSE text2
    IN  IF StartsWith(text0, Ticks(3)) THEN JsonLoads(text3) ELSE JsonLoads(text0)

\* _parse_scoring_json, lines 76-85
ParseScoringJson(c) ==
    LET text0 == Strip(c)
        text1 == LStripBackticks(text0)
        text2 == IF StartsWith(LowerText(text1), TagJson)
                 THEN Strip(Slice(text1, 4, Len(text1)))
                 ELSE text1
        text3 == IF EndsWith(text2, Ticks(3)) THEN Strip(Slice(text2, 0, 0 - 3)) ELSE text2
    IN  IF StartsWith(text0, Ticks(3)) THEN JsonLoads(text3) ELSE JsonLoads(text0)

\* the texts that get wrapped: objects, and texts that are no JSON
JsonTexts ==
    {<<"{", "}">>, <<"{", "j", "}">>, <<"{", " ", "j", " ", "}">>, <<"{", Backtick, "}">>,
     <<"{", "j", "s", "o", "n", "}">>, <<" ", "{", "n", "}", " ">>,
     <<>>, <<"j">>, <<"}", "{">>}

Gaps == {<<>>, <<" ">>}

\* a text between an opening of a backticks with an optional tag and a
\* closing of b backticks, with or without whitespace around each part
Wrapped(lead, a, tag, gap1, t, gap2, b, trail) ==
    lead \o Ticks(a) \o tag \o gap1 \o t \o gap2 \o Ticks(b) \o trail

Contents(t) ==
    {Wrapped(lead, a, tag, gap1, t, gap2, b, trail) :
        lead \in Gaps, a \in 0..MaxBackticks, tag \in {<<>>, TagJson, <<"J", "S", "O", "N">>},
        gap1 \in Gaps, gap2 \in Gaps, b \in 0..MaxBackticks, trail \in Gaps}

InitParse ==
    /\ json_text \in JsonTexts
    /\ content \in Contents(json_text)
    /\ parsed = NotParsed
    /\ ps_pc = "call"
    /\ IdleChunk
    /\ IdleRetrieve
    /\ IdleOne
    /\ IdlePipe
    /\ thread_pc = <<>>
    /\ handler_pc = <<>>
    /\ handler_thread = <<>>

\* each parser is called on the content
Parse ==
    /\ ps_pc = "call"
    /\ parsed' = [generator |-> ParseJsonFromContent(content),
                  scorer |-> ParseScoringJson(content)]
    /\ ps_pc' = "return"
    /\ UNCHANGED <<content, json_text>>

NextParse ==
    Parse /\ UNCHANGED <<chunkVars, retrVars, oneVars, pipeVars, thread_pc, handler_pc, handler_thread>>

SpecParse == InitParse /\ [][NextParse]_vars

IsObjectText(t) == JsonLoads(t).exc = "none"

\* J after a line of three backticks and json, before a line of three backticks
JsonFenced(t) == {Wrapped(<<>>, 3, TagJson, <<" ">>, t, <<" ">>, 3, trail) : trail \in Gaps}

\* J between two lines of three backticks
PlainFenced(t) == {Wrapped(<<>>, 3, <<>>, <<" ">>, t, <<" ">>, 3, trail) : trail \in Gaps}

\* C21: for every JSON object text J both parsers return, for J in a fence
\* tagged json and for J in plain fences, the value they return for the bare
\* J, which is the value of J; and the two parsers return the same on every
\* content.
C21_CodeFenceRoundTrip ==
    (ps_pc = "return") =>
        /\ parsed.generator = parsed.scorer
        /\ (/\ IsObjectText(json_text)
            /\ content \in {json_text} \cup JsonFenced(json_text) \cup PlainFenced(json_text)) =>
               /\ parsed.generator = JsonLoads(json_text)
               /\ parsed.generator = ParseJsonFromContent(json_text)
               /\ parsed.scorer = ParseScoringJson(json_text)
               /\ parsed.generator.exc = "none"

\* an object with a member has been parsed out of a fence tagged json
C21_Witness ==
    /\ ps_pc = "return"
    /\ json_text = <<"{", " ", "j", " ", "}">>
    /\ content \in JsonFenced(json_text)
    /\ parsed.generator = [exc |-> "none", value |-> <<"j">>]
    /\ parsed.scorer = parsed.generator

(***************************************************************************)
(* rate_limiter run by several worker threads at once (security.py 44-66)  *)
(*                                                                         *)
(* rate_limiter is a plain def, so FastAPI runs it in the thread pool; the *)
(* deque of a client key is shared by the threads and nothing locks it.    *)
(* Each deque operation is one step, and a thread can be preempted between *)
(* any two of them.  All threads serve requests of one client key, within  *)
(* one reading of the clock.                                               *)
(***************************************************************************)
Threads == 1..MaxThreads

ThreadRequest == GateRequest("hostA", "")

ThreadKey == ClientKey(ThreadRequest)

\* what no thread of rate_limiter writes: every variable but the deques, the
\* answers and the threads' positions
threadFrame == <<request, now, settingsVars, payload, jd_questions, all_scored, llm_calls,
                 embed_calls, rag_result, response, raised, http_posts, pc, environ, proc,
                 chunkVars, retrVars, oneVars, parseVars, handler_pc, handler_thread>>

\* the deque of the key holds n timestamps of requests accepted at time 0
InitThreads ==
    /\ environ = [EMBED_MODEL_NAME |-> "model", APP_API_KEY |-> ""]
    /\ proc = "serving"
    /\ max_requests_per_minute \in 1..MaxRate
    /\ now \in {0, window_seconds + TickSeconds}
    /\ \E n \in 0..max_requests_per_minute :
           /\ request_history =
                  [k \in (IF n = 0 THEN {} ELSE {ThreadKey}) |-> [i \in 1..n |-> 0]]
           /\ log = [i \in 1..n |-> Answered("protected", ThreadRequest, 0, "", NoResponse)]
    /\ thread_pc = [th \in Threads |-> "start"]
    /\ request = NoRequest
    /\ max_questions_per_category = 1
    /\ payload = NoPayload
    /\ jd_questions = NoQuestions
    /\ all_scored = <<>>
    /\ llm_calls = <<>>
    /\ embed_calls = <<>>
    /\ rag_result = <<>>
    /\ response = NoResponse
    /\ raised = ""
    /\ http_posts = 0
    /\ pc = "idle"
    /\ IdleChunk
    /\ IdleRetrieve
    /\ IdleOne
    /\ IdleParse
    /\ handler_pc = <<>>
    /\ handler_thread = <<>>

SetHistory(dq) ==
    [k \in DOMAIN request_history \cup {ThreadKey} |->
        IF k = ThreadKey THEN dq ELSE request_history[k]]

\* the thread's request is answered with an exception of the dependency
ThreadRaises(th, exc) ==
    /\ thread_pc' = [thread_pc EXCEPT ![th] = "raised"]
    /\ log' = Append(log, Answered("protected", ThreadRequest, now, exc, Unhandled(exc)))

\* lines 51-55: dq = _request_history[client_key] (the defaultdict makes the
\* deque of a new key)
TStart(th) ==
    /\ thread_pc[th] = "start"
    /\ request_history' = SetHistory(History(ThreadKey))
    /\ thread_pc' = [thread_pc EXCEPT ![th] = "while"]
    /\ UNCHANGED log

\* line 58: while dq
TWhile(th) ==
    /\ thread_pc[th] = "while"
    /\ thread_pc' = [thread_pc EXCEPT ![th] =
                         IF History(ThreadKey) # <<>> THEN "peek" ELSE "check"]
    /\ UNCHANGED <<request_history, log>>

\* line 58: and now - dq[0] > window_seconds
TPeek(th) ==
    /\ thread_pc[th] = "peek"
    /\ LET dq == History(ThreadKey)
       IN  IF dq = <<>>
           THEN ThreadRaises(th, "IndexError")
           ELSE /\ thread_pc' = [thread_pc EXCEPT ![th] =
                                     IF now - dq[1] > window_seconds
                                     THEN "popleft" ELSE "check"]
                /\ UNCHANGED log
    /\ UNCHANGED request_history

\* line 59: dq.popleft()
TPopleft(th) ==
    /\ thread_pc[th] = "popleft"
    /\ LET dq == History(ThreadKey)
       IN  IF dq = <<>>
           THEN ThreadRaises(th, "IndexError") /\ UNCHANGED request_history
           ELSE /\ request_history' = SetHistory(Tail(dq))
                /\ thread_pc' = [thread_pc EXCEPT ![th] = "while"]
                /\ UNCHANGED log

\* lines 61-64: if len(dq) >= max_requests: raise RateLimitError
TCheck(th) ==
    /\ thread_pc[th] = "check"
    /\ IF Len(History(ThreadKey)) >= max_requests_per_minute
       THEN ThreadRaises(th, "RateLimitError")
       ELSE thread_pc' = [thread_pc EXCEPT ![th] = "append"] /\ UNCHANGED log
    /\ UNCHANGED request_history

\* line 66: dq.append(now); the request goes on to the endpoint
TAppend(th) ==
    /\ thread_pc[th] = "append"
    /\ request_history' = SetHistory(Append(History(ThreadKey), now))
    /\ thread_pc' = [thread_pc EXCEPT ![th] = "returned"]
    /\ log' = Append(log, Answered("protected", ThreadRequest, now, "", NoResponse))

NextThreads ==
    \/ \E th \in Threads : TStart(th) /\ UNCHANGED threadFrame
    \/ \E th \in Threads : TWhile(th) /\ UNCHANGED threadFrame
    \/ \E th \in Threads : TPeek(th) /\ UNCHANGED threadFrame
    \/ \E th \in Threads : TPopleft(th) /\ UNCHANGED threadFrame
    \/ \E th \in Threads : TCheck(th) /\ UNCHANGED threadFrame
    \/ \E th \in Threads : TAppend(th) /\ UNCHANGED threadFrame

SpecThreads == InitThreads /\ [][NextThreads]_vars

\* C28: whatever the interleaving of the threads, at most
\* max_requests_per_minute requests of the key are accepted with a timestamp
\* in any window of 60 s.
C28_NoOverAdmission ==
    \A t \in Instants :
        Cardinality(AcceptedIn(ThreadKey, t)) <= max_requests_per_minute

(***************************************************************************)
(* Several POST /score requests in one process (scoring_route.py 30-93)    *)
(*                                                                         *)
(* The process has one event loop thread and a pool of PoolSize worker     *)
(* threads (40 in anyio, outside the repository).  A request goes through  *)
(* its stages in order; each stage runs on the loop or on a worker, which  *)
(* it holds until the stage ends.  A stage that never ends is a step that  *)
(* is never taken.                                                         *)
(***************************************************************************)
Handlers == 1..MaxHandlers

\* the order of the stages of score_resume
After(stage) ==
    CASE stage = "dependencies" -> "normalize"
      [] stage = "normalize" -> "generate"
      [] stage = "generate" -> "score"
      [] stage = "score" -> "respond"
      [] stage = "respond" -> "done"

RunsOnLoop(stage) == "loop"

\* rate_limiter is a plain def, which FastAPI calls in the thread pool;
\* normalize_score_input and score_resume are async def and run on the loop,
\* except for the two core calls handed to run_in_threadpool: the generation
\* (LLM call) and the scoring (embedding inference and LLM calls)
RunsOn(stage) ==
    CASE stage = "dependencies" -> "worker"
      [] stage = "normalize" -> "loop"
      [] stage = "generate" -> "worker"
      [] stage = "score" -> "worker"
      [] stage = "respond" -> "loop"

InitLoop ==
    /\ handler_pc = [h \in Handlers |-> "dependencies"]
    /\ handler_thread = [h \in Handlers |-> "none"]
    /\ IdleChunk
    /\ IdleRetrieve
    /\ IdleOne
    /\ IdlePipe
    /\ IdleParse
    /\ thread_pc = <<>>

\* the loop starts the next stage of a request: on itself, or on a worker of
\* the pool when one is free
Begin(h) ==
    /\ handler_pc[h] # "done"
    /\ handler_thread[h] = "none"
    /\ \A r \in Handlers : handler_thread[r] # "loop"
    /\ RunsOn(handler_pc[h]) = "worker" =>
           Cardinality({r \in Handlers : handler_thread[r] = "worker"}) < PoolSize
    /\ handler_thread' = [handler_thread EXCEPT ![h] = RunsOn(handler_pc[h])]
    /\ UNCHANGED handler_pc

\* the stage ends: it returns and the request goes on, or it raises and the
\* request is answered with the error
End(h) ==
    /\ handler_thread[h] # "none"
    /\ handler_thread' = [handler_thread EXCEPT ![h] = "none"]
    /\ \E next \in {After(handler_pc[h]), "done"} :
           handler_pc' = [handler_pc EXCEPT ![h] = next]

NextLoop ==
    \/ \E h \in Handlers : Begin(h) /\ UNCHANGED <<chunkVars, retrVars, oneVars, pipeVars, parseVars, thread_pc>>
    \/ \E h \in Handlers : End(h) /\ UNCHANGED <<chunkVars, retrVars, oneVars, pipeVars, parseVars, thread_pc>>

SpecEventLoop == InitLoop /\ [][NextLoop]_vars

\* the request is inside a backend call: generation or scoring has started
\* and not ended
InBackendCall(h) == handler_pc[h] \in {"generate", "score"} /\ handler_thread[h] # "none"

\* C25: a request inside an LLM call or embedding inference holds a worker
\* thread, never the event loop; and while one request is inside such a call
\* and no other stage is running, the loop can start the next stage of every
\* other unfinished request, however long the call takes.
C25_NonBlockingOrchestration ==
    \A h \in Handlers :
        InBackendCall(h) =>
            /\ handler_thread[h] = "worker"
            /\ (\A r \in Handlers \ {h} : handler_thread[r] = "none") =>
                   \A r \in Handlers \ {h} : handler_pc[r] # "done" => ENABLED Begin(r)

\* two requests are inside their backend calls while the loop runs the
\* normalisation of a third
C25_Witness ==
    /\ InBackendCall(1) /\ handler_pc[1] = "generate"
    /\ InBackendCall(2) /\ handler_pc[2] = "score"
    /\ handler_pc[3] = "normalize" /\ handler_thread[3] = "loop"
====
